---- MODULE Spec2Model ----
(***************************************************************************)
(* A model of egui_timeline: the grid step generator (ruler::Steps), the   *)
(* scroll/zoom gesture handling of Timeline::show and the click mapping of *)
(* ruler::musical.                                                         *)
(*                                                                         *)
(* Numbers.  The program computes in f32.  The model represents an f32 as  *)
(* an integer count of 1/Unit (Unit = 64, a power of two) and draws its    *)
(* inputs from sets on which every product, quotient and sum the code      *)
(* forms is a dyadic rational that f32 represents exactly, so that the     *)
(* fixed-point result is the f32 result.  +infinity (a division by a zero  *)
(* subdivision count) is the sentinel Inf, larger than every finite value. *)
(***************************************************************************)
EXTENDS Integers, Sequences, FiniteSets, TLC

\* ------------------------------------------------------------------ bounds
\* Largest visible length (width of the ruler / timeline rect), in points.
MaxVisibleLen == 16
\* Largest scroll offset of the view into its first bar, in points.
MaxOffsetPx == 8
\* Longest cycle of time signatures the host's bars repeat.
MaxSigs == 2
\* Largest scroll delta component of a frame, in points.
MaxDelta == 3
\* Largest pointer x coordinate of a frame, in points.
MaxPointer == 9

\* ------------------------------------------------------------- arithmetic
Unit == 64
Inf == 1073741824
U16 == 65536

F(n) == n * Unit
FMul(a, b) == (a * b) \div Unit
FDivZeroIsZero(a, b) == IF b = 0 THEN 0 ELSE (a * Unit) \div b

\* f32 division: a quotient by 0.0 is +infinity (no trap).
FDiv(a, b) == IF b = 0 THEN Inf ELSE (a * Unit) \div b
FNoClamp(a) == a

\* f32::max(self, 0.0)
FMax0(a) == IF a < 0 THEN 0 ELSE a

\* lib.rs: pub const MIN_STEP_GAP: f32 = 4.0;
MIN_STEP_GAP == 4

\* ------------------------------------------------------------------ inputs
\* ticks_per_beat (PPQN) values of the host.
TpbSet == {16, 96, 65536}
\* Zoom overrides of the host (ticks per point, fixed point): 1/4 and 4.
TppOverrides == {16, 256}
\* min_step_gap arguments given to Steps::new (points).
GapSet == {MIN_STEP_GAP, 8}
\* Time signatures of the host's bars.
SigSet == { [top |-> 4, bottom |-> 4],
            [top |-> 3, bottom |-> 8],
            [top |-> 1, bottom |-> 16] }
SigSeqs == UNION { [1..n -> SigSet] : n \in 1..MaxSigs }
Builds == {"debug", "release"}

VARIABLES
  info,      \* the host's MusicalInfo
  args,      \* the arguments Steps::new was given: visible_len, min_step_gap
  steps,     \* the Steps struct of the current generation pass
  status,    \* outcome of the last Steps::next call
  emitted,   \* the Steps returned so far in this pass, with the bar current at emission
  entered,   \* the bars whose step interval has been computed so far in this pass
  frame,     \* inputs of the last frame given to Timeline::show / ruler::musical
  calls,     \* host callbacks invoked during the last frame
  shown      \* results of the last frame: visible_ticks of the context, lines drawn

vars == <<info, args, steps, status, emitted, entered, frame, calls, shown>>

\* ---------------------------------------------------------------- the host
\* MusicalInfo::ticks_per_point, default implementation.
DefaultTicksPerPoint(ticks_per_beat) == FDiv(F(ticks_per_beat), F(16))

ticks_per_beat(api) == api.ticks_per_beat
ticks_per_point(api) ==
  IF api.tpp = 0 THEN DefaultTicksPerPoint(api.ticks_per_beat) ELSE api.tpp

\* TimeSig::beats_per_bar
beats_per_bar(time_sig) == FDiv(FMul(F(4), F(time_sig.top)), F(time_sig.bottom))

\* The host's bars: bar k (from 0) has the k-th time signature of the cycle
\* api.sigs, lasts beats_per_bar beats, and starts where bar k-1 ends; bar 0
\* starts at api.first_start <= 0 and contains tick 0.
SigOf(api, k) == api.sigs[(k % Len(api.sigs)) + 1]
BarLen(api, k) == FMul(beats_per_bar(SigOf(api, k)), F(api.ticks_per_beat))

RECURSIVE BarFrom(_, _, _, _)
BarFrom(api, k, start, tick) ==
  LET end == start + BarLen(api, k)
  IN IF tick < end
     THEN [tick_range |-> [start |-> start, end |-> end], time_sig |-> SigOf(api, k)]
     ELSE BarFrom(api, k + 1, end, tick)

\* MusicalInfo::bar_at_ticks: the bar whose half-open range contains tick.
bar_at_ticks(api, tick) == BarFrom(api, 0, api.first_start, tick)

\* --------------------------------------------------------------- Steps::new
StepsNew(api, visible_len, min_step_gap) ==
  [ ticks_per_beat  |-> F(ticks_per_beat(api)),
    ticks_per_point |-> ticks_per_point(api),
    visible_ticks   |-> FMul(ticks_per_point(api), visible_len),
    min_step_ticks  |-> FMul(ticks_per_point(api), min_step_gap),
    index_in_bar    |-> 0,
    step_ticks      |-> 0,
    bar             |-> bar_at_ticks(api, 0),
    ticks           |-> 0 ]

\* -------------------------------------------------------------- Steps::next
NaturalStepFitsAlways(step_ticks, min_step_ticks) == TRUE

\* if self.step_ticks >= self.min_step_ticks
NaturalStepFits(step_ticks, min_step_ticks) == step_ticks >= min_step_ticks

StopSubdividingStrict(new_step_ticks, min_step_ticks) == new_step_ticks < min_step_ticks
StopSubdividingLate(new_step_ticks, min_step_ticks) == new_step_ticks <= min_step_ticks \div 4

\* if new_step_ticks <= self.min_step_ticks { break; }
StopSubdividing(new_step_ticks, min_step_ticks) == new_step_ticks <= min_step_ticks

FallbackStepHalf(bar) == (bar.tick_range.end - bar.tick_range.start) \div 2

\* self.step_ticks = self.bar.tick_range.end - self.bar.tick_range.start
FallbackStep(bar) == bar.tick_range.end - bar.tick_range.start

PastVisibleStrict(ticks, visible_ticks) == ticks >= visible_ticks
PastVisibleLate(ticks, visible_ticks) == ticks > visible_ticks + Unit

\* if self.ticks > self.visible_ticks { return None; }
PastVisible(ticks, visible_ticks) == ticks > visible_ticks

BarFinishedLate(ticks, bar) == ticks > bar.tick_range.end

\* if self.ticks >= self.bar.tick_range.end
BarFinished(ticks, bar) == ticks >= bar.tick_range.end

\* The inner loop doubling the u16 beat_subdivs.  beat_subdivs * 2 overflows
\* u16 at 65536: a build with overflow checks ("debug") panics there, a build
\* without ("release") wraps.  After a wrap to 0 the quotient is +infinity,
\* the break is never taken and the loop state no longer changes: the loop
\* runs forever.
RECURSIVE SubdivLoop(_, _, _, _, _)
SubdivLoop(tpb, min_step_ticks, beat_subdivs, step_ticks, build) ==
  LET product == beat_subdivs * 2
      new_beat_subdivs == product % U16
      new_step_ticks == FDiv(tpb, F(new_beat_subdivs))
  IN IF product >= U16 /\ build = "debug"
       THEN [kind |-> "panic", step_ticks |-> step_ticks]
     ELSE IF StopSubdividing(new_step_ticks, min_step_ticks)
       THEN [kind |-> "ok", step_ticks |-> step_ticks]
     ELSE IF new_beat_subdivs = beat_subdivs /\ new_step_ticks = step_ticks
       THEN [kind |-> "hang", step_ticks |-> step_ticks]
     ELSE SubdivLoop(tpb, min_step_ticks, new_beat_subdivs, new_step_ticks, build)

\* The block run at the first step of a bar: choose the step interval.
StepInterval(s, build) ==
  LET beat_subdivs == s.bar.time_sig.bottom \div 4
      step_ticks == FDiv(s.ticks_per_beat, F(beat_subdivs))
  IN IF NaturalStepFits(step_ticks, s.min_step_ticks)
       THEN SubdivLoop(s.ticks_per_beat, s.min_step_ticks, beat_subdivs, step_ticks, build)
       ELSE [kind |-> "ok", step_ticks |-> FallbackStep(s.bar)]

\* One call of Steps::next, from the top of the 'bars loop.  r carries the
\* struct (s) and the bars entered during the call (entered).  The result is
\* [kind, s, entered, step]: kind "some" with the returned Step, "none",
\* or "panic" / "hang" when the call does not return.
RECURSIVE BarsLoop(_, _, _), TicksLoop(_, _, _)
BarsLoop(api, r, build) ==
  IF r.s.index_in_bar = 0
  THEN LET iv == StepInterval(r.s, build)
           s1 == [r.s EXCEPT !.ticks = r.s.bar.tick_range.start,
                             !.step_ticks = iv.step_ticks]
           r1 == [s |-> s1,
                  entered |-> Append(r.entered, [bar |-> s1.bar, step_ticks |-> iv.step_ticks])]
       IN IF iv.kind = "ok"
          THEN TicksLoop(api, r1, build)
          ELSE [kind |-> iv.kind, s |-> s1, entered |-> r.entered, step |-> <<>>]
  ELSE TicksLoop(api, r, build)

TicksLoop(api, r, build) ==
  LET s == r.s IN
  IF PastVisible(s.ticks, s.visible_ticks)
    THEN [kind |-> "none", s |-> s, entered |-> r.entered, step |-> <<>>]
  ELSE IF BarFinished(s.ticks, s.bar)
    THEN BarsLoop(api,
                  [r EXCEPT !.s = [s EXCEPT !.index_in_bar = 0,
                                            !.bar = bar_at_ticks(api, s.bar.tick_range.end + (Unit \div 2))]],
                  build)
  ELSE LET index_in_bar == s.index_in_bar
           ticks == s.ticks
           s2 == [s EXCEPT !.index_in_bar = s.index_in_bar + 1,
                           !.ticks = s.ticks + s.step_ticks]
       IN IF ticks < 0
            THEN TicksLoop(api, [r EXCEPT !.s = s2], build)
            ELSE [kind |-> "some", s |-> s2, entered |-> r.entered,
                  step |-> <<[index_in_bar |-> index_in_bar, ticks |-> ticks,
                              x |-> FDiv(ticks, s.ticks_per_point)]>>]

StepsNextResult(api, s, build) == BarsLoop(api, [s |-> s, entered |-> <<>>], build)

\* ------------------------------------------------------------ specification
\* A host whose view is scrolled off points into its first bar.
Host(tpb, tpp, sigs, off) ==
  LET h == [ticks_per_beat |-> tpb, tpp |-> tpp, sigs |-> sigs, first_start |-> 0]
  IN [h EXCEPT !.first_start = 0 - FMul(ticks_per_point(h), F(off))]

Hosts ==
  { h \in { Host(tpb, tpp, sigs, off) :
              tpb \in TpbSet, tpp \in TppOverrides \cup {0},
              sigs \in SigSeqs, off \in 0..MaxOffsetPx } :
      0 - h.first_start < BarLen(h, 0) }

NoFrame == [kind |-> "none"]

Init ==
  /\ info \in Hosts
  /\ args \in [visible_len : {F(n) : n \in 0..MaxVisibleLen}, min_step_gap : {F(g) : g \in GapSet}]
  /\ steps = StepsNew(info, args.visible_len, args.min_step_gap)
  /\ status = "new"
  /\ emitted = <<>>
  /\ entered = <<>>
  /\ frame = NoFrame
  /\ calls = <<>>
  /\ shown = <<>>

\* while let Some(step) = steps.next(info) { ... }
StepsNext ==
  /\ status \in {"new", "some"}
  /\ \E build \in Builds :
       LET res == StepsNextResult(info, steps, build)
       IN /\ steps' = res.s
          /\ status' = res.kind
          /\ entered' = entered \o res.entered
          /\ emitted' = IF res.kind = "some"
                          THEN Append(emitted, [step |-> res.step[1], bar |-> res.s.bar,
                                                step_ticks |-> res.s.step_ticks])
                          ELSE emitted
  /\ UNCHANGED <<info, args, frame, calls, shown>>

Next == StepsNext

Spec == Init /\ [][Next]_vars

\* Hosts with a bar whose time signature has a denominator below 4: the bar
\* is the first one, or it follows the bars of a cycle of SigSeqs.
SubQuarterSigs == { [top |-> 2, bottom |-> 2],
                    [top |-> 3, bottom |-> 2],
                    [top |-> 1, bottom |-> 1] }
SubQuarterTpbSet == {16, 96}

SubQuarterHosts ==
  { h \in { Host(tpb, tpp, prefix \o <<sig>>, off) :
              tpb \in SubQuarterTpbSet, tpp \in TppOverrides \cup {0},
              prefix \in SigSeqs \cup {<<>>}, sig \in SubQuarterSigs,
              off \in 0..MaxOffsetPx } :
      0 - h.first_start < BarLen(h, 0) }

InitSubQuarter ==
  /\ info \in SubQuarterHosts
  /\ args \in [visible_len : {F(n) : n \in 0..MaxVisibleLen}, min_step_gap : {F(MIN_STEP_GAP)}]
  /\ steps = StepsNew(info, args.visible_len, args.min_step_gap)
  /\ status = "new"
  /\ emitted = <<>>
  /\ entered = <<>>
  /\ frame = NoFrame
  /\ calls = <<>>
  /\ shown = <<>>

SpecSubQuarter == InitSubQuarter /\ [][Next]_vars

\* ------------------------------------------------------------ Timeline::show
\* Option<f32>: None is the empty sequence, Some(v) is <<v>>.
None == <<>>
Some(v) == <<v>>

\* egui's Rect::contains along x, for a pointer that may be absent.
RectContainsPointer(rect, pointer) ==
  pointer /= None /\ rect.min_x <= pointer[1] /\ pointer[1] <= rect.max_x

ZoomDeltaSum(delta) == delta.y + delta.x

\* timeline.zoom(delta.y - delta.x)
ZoomDelta(delta) == delta.y - delta.x

ShiftPoints(delta, tpp) == delta.x

\* timeline.shift_timeline_start(delta.x * ticks_per_point)
ShiftTicks(delta, tpp) == FMul(delta.x, tpp)

\* if ui.rect_contains_pointer(timeline_rect)
PointerOverTimeline(rect, pointer) == RectContainsPointer(rect, pointer)

\* The area occupied by the timeline: the full rect less the header.
TimelineRect(full_rect, header) ==
  IF header = None THEN full_rect
  ELSE [full_rect EXCEPT !.min_x = full_rect.min_x + header[1]]

\* Check whether or not we should scroll the timeline or zoom: the host
\* callbacks the frame invokes, in order.
ScrollOrZoom(api, timeline_rect, pointer, ctrl, delta) ==
  IF PointerOverTimeline(timeline_rect, pointer)
  THEN IF ctrl
       THEN IF delta.x /= 0 \/ delta.y /= 0
            THEN <<[fn |-> "zoom", arg |-> ZoomDelta(delta)]>>
            ELSE <<>>
       ELSE IF delta.x /= 0
            THEN <<[fn |-> "shift_timeline_start", arg |-> ShiftTicks(delta, ticks_per_point(api))]>>
            ELSE <<>>
  ELSE <<>>

\* Hosts of the frame specifications: the view starts at a bar, one time signature.
FrameHosts ==
  { h \in Hosts : h.first_start = 0 /\ Len(h.sigs) = 1 }
    \cup { Host(480, 0, <<[top |-> 4, bottom |-> 4]>>, 0) }

Deltas == { [x |-> F(dx), y |-> F(dy)] : dx, dy \in (0 - MaxDelta)..MaxDelta }
Pointers == { Some(F(p)) : p \in 0..MaxPointer } \cup {None}
FullRects == { [min_x |-> F(0), max_x |-> F(8)], [min_x |-> F(2), max_x |-> F(6)] }
Headers == {None, Some(F(2))}

InitFrames ==
  /\ info \in FrameHosts
  /\ args = [visible_len |-> 0, min_step_gap |-> F(MIN_STEP_GAP)]
  /\ steps = StepsNew(info, args.visible_len, args.min_step_gap)
  /\ status = "new"
  /\ emitted = <<>>
  /\ entered = <<>>
  /\ frame = NoFrame
  /\ calls = <<>>
  /\ shown = <<>>

\* One frame of Timeline::show.
Show ==
  /\ frame = NoFrame
  /\ \E full_rect \in FullRects, header \in Headers, pointer \in Pointers,
        ctrl \in BOOLEAN, delta \in Deltas :
    LET timeline_rect == TimelineRect(full_rect, header)
    IN /\ frame' = [kind |-> "show", full_rect |-> full_rect, header |-> header,
                     pointer |-> pointer, ctrl |-> ctrl, delta |-> delta]
       /\ calls' = ScrollOrZoom(info, timeline_rect, pointer, ctrl, delta)
       /\ shown' = [timeline_rect |-> timeline_rect,
                     visible_ticks |-> FMul(ticks_per_point(info),
                                            timeline_rect.max_x - timeline_rect.min_x)]
       /\ UNCHANGED <<info, args, steps, status, emitted, entered>>

\* The frame is over: its inputs and effects are gone (nothing is kept
\* across frames).
EndFrame ==
  /\ frame /= NoFrame
  /\ frame' = NoFrame
  /\ calls' = <<>>
  /\ shown' = <<>>
  /\ UNCHANGED <<info, args, steps, status, emitted, entered>>

NextShow == Show \/ EndFrame

SpecShow == InitFrames /\ [][NextShow]_vars

\* ------------------------------------------------------------ ruler::musical
\* The steps loop of the ruler: the x of every line drawn, or the way the
\* loop fails to end.
RECURSIVE DrawSteps(_, _, _, _, _)
DrawSteps(api, s, left, lines, build) ==
  LET res == StepsNextResult(api, s, build)
  IN IF res.kind = "some"
       THEN DrawSteps(api, res.s, left, Append(lines, left + res.step[1].x), build)
     ELSE IF res.kind = "none"
       THEN [kind |-> "returned", lines |-> lines]
     ELSE [kind |-> res.kind, lines |-> lines]

\* let tick = (((pt.x - rect.min.x) / w) * visible_ticks).max(0.0);
ClickTick(pt_x, rect_min_x, w, visible_ticks) ==
  FMax0(FMul(FDiv(pt_x - rect_min_x, w), visible_ticks))

\* Check for clicks.
RulerClicks(api, rect_min_x, w, clicked, dragged, pointer) ==
  LET visible_ticks == FMul(w, ticks_per_point(api))
  IN IF (clicked \/ dragged) /\ pointer /= None
     THEN <<[fn |-> "click_at_tick", arg |-> ClickTick(pointer[1], rect_min_x, w, visible_ticks)]>>
     ELSE <<>>

RulerLefts == {F(0), F(2)}
RulerWidths == {F(4), F(8), F(16)}

\* One frame of ruler::musical.
Musical ==
  /\ frame = NoFrame
  /\ \E left \in RulerLefts, w \in RulerWidths, clicked \in BOOLEAN, dragged \in BOOLEAN,
        pointer \in Pointers, build \in Builds :
    LET clicks == RulerClicks(info, left, w, clicked, dragged, pointer)
        drawn == DrawSteps(info, StepsNew(info, w, F(MIN_STEP_GAP)), left, <<>>, build)
    IN /\ frame' = [kind |-> "musical", left |-> left, w |-> w, clicked |-> clicked,
                     dragged |-> dragged, pointer |-> pointer]
       /\ calls' = clicks
       /\ shown' = [kind |-> drawn.kind, lines |-> drawn.lines, changed |-> clicks /= <<>>]
       /\ UNCHANGED <<info, args, steps, status, emitted, entered>>

\* ---------------------------------------------------------------- playhead::set
\* Playhead::DEFAULT_EXTEND_BEYOND_LAST_TRACK, DEFAULT_EXTEND_TO_AVAILABLE_HEIGHT
\* and DEFAULT_WIDTH.
DEFAULT_EXTEND_BEYOND_LAST_TRACK == 0
DEFAULT_EXTEND_TO_AVAILABLE_HEIGHT == FALSE
DEFAULT_WIDTH == 1

\* Playhead::default().
PlayheadDefault ==
  [extend_beyond_last_track |-> F(DEFAULT_EXTEND_BEYOND_LAST_TRACK),
   extend_to_available_height |-> DEFAULT_EXTEND_TO_AVAILABLE_HEIGHT,
   width |-> F(DEFAULT_WIDTH)]

\* The playhead configurations the builder methods make.
Playheads ==
  { PlayheadDefault,
    [PlayheadDefault EXCEPT !.extend_to_available_height = TRUE],
    [PlayheadDefault EXCEPT !.extend_beyond_last_track = F(2)],
    [PlayheadDefault EXCEPT !.width = F(2)] }

\* let playhead_x = timeline_rect.left() + playhead_ticks / api.ticks_per_point();
PlayheadX(api, timeline_left, playhead_ticks) ==
  timeline_left + FDiv(playhead_ticks, ticks_per_point(api))

\* Allocate a thin `Rect` over the timeline at the playhead.
PlayheadRect(playhead_x, timeline_rect, tracks_bottom, playhead) ==
  LET half_w == FMul(playhead.width, Unit \div 2)
      top == timeline_rect.min_y
      bottom == IF playhead.extend_to_available_height
                THEN timeline_rect.max_y
                ELSE tracks_bottom + playhead.extend_beyond_last_track
  IN [min_x |-> playhead_x - half_w, min_y |-> top,
      max_x |-> playhead_x + half_w, max_y |-> bottom]

\* let tick = (((pt.x - timeline_rect.min.x) / timeline_w) * visible_ticks).max(0.0);
PlayheadTick(pt_x, timeline_min_x, timeline_w, visible_ticks) ==
  FMax0(FMul(FDiv(pt_x - timeline_min_x, timeline_w), visible_ticks))

\* Handle interactions.
PlayheadClicks(api, timeline_min_x, timeline_w, clicked, dragged, pointer) ==
  LET visible_ticks == FMul(ticks_per_point(api), timeline_w)
  IN IF (clicked \/ dragged) /\ pointer /= None
     THEN <<[fn |-> "set_playhead_ticks",
             arg |-> PlayheadTick(pointer[1], timeline_min_x, timeline_w, visible_ticks)]>>
     ELSE <<>>

\* if timeline_rect.x_range().contains(playhead_x)
PlayheadVisible(playhead_x, timeline_rect) ==
  timeline_rect.min_x <= playhead_x /\ playhead_x <= timeline_rect.max_x

\* The timeline rects of a frame, the bottom of the last track, and the
\* positions (in points from the timeline start) the host's playhead is at.
TimelineRects ==
  { [min_x |-> left, min_y |-> F(0), max_x |-> left + w, max_y |-> F(20)] :
      left \in RulerLefts, w \in RulerWidths }
TracksBottoms == {F(10)}
PlayheadPoints == {0, 3, 8, 20}

\* One frame of playhead::set.
PlayheadSet ==
  /\ frame = NoFrame
  /\ \E timeline_rect \in TimelineRects, tracks_bottom \in TracksBottoms,
        playhead \in Playheads, pt \in PlayheadPoints,
        clicked \in BOOLEAN, dragged \in BOOLEAN, pointer \in Pointers :
    LET playhead_ticks == FMul(ticks_per_point(info), F(pt))
        playhead_x == PlayheadX(info, timeline_rect.min_x, playhead_ticks)
        rect == PlayheadRect(playhead_x, timeline_rect, tracks_bottom, playhead)
        timeline_w == timeline_rect.max_x - timeline_rect.min_x
        clicks == PlayheadClicks(info, timeline_rect.min_x, timeline_w, clicked, dragged, pointer)
    IN /\ frame' = [kind |-> "playhead", left |-> timeline_rect.min_x, w |-> timeline_w,
                     clicked |-> clicked, dragged |-> dragged, pointer |-> pointer,
                     playhead_ticks |-> playhead_ticks, playhead |-> playhead]
       /\ calls' = clicks
       /\ shown' = [kind |-> "returned", rect |-> rect,
                     painted |-> PlayheadVisible(playhead_x, timeline_rect),
                     changed |-> clicks /= <<>>]
       /\ UNCHANGED <<info, args, steps, status, emitted, entered>>

NextRuler == Musical \/ PlayheadSet \/ EndFrame

SpecRuler == InitFrames /\ [][NextRuler]_vars

\* ------------------------------------------------------------------ claims
Ticks(i) == emitted[i].step.ticks
SameBar(i, j) == emitted[i].bar = emitted[j].bar
IsBarStart(tick) == bar_at_ticks(info, tick).tick_range.start = tick
\* The steps emitted for a bar.
StepsOf(bar) == { i \in 1..Len(emitted) : emitted[i].bar = bar }
\* The bar's natural step: ticks_per_beat / (denominator / 4).
NaturalStep(bar) == FDiv(steps.ticks_per_beat, F(bar.time_sig.bottom \div 4))
\* The generator has left the j-th bar it entered.
LeftBar(j) == j < Len(entered) \/ status = "none"

\* C1: the emitted steps have strictly increasing ticks; a step has
\* index_in_bar = 0 exactly when its ticks is the start of a bar; and every
\* step, one on a bar boundary included, belongs to the bar that contains its
\* tick (the new bar and its time signature), never to the previous one.
C1_MonotonicBarStarts ==
  /\ \A i \in 1..(Len(emitted) - 1) : Ticks(i) < Ticks(i + 1)
  /\ \A i \in 1..Len(emitted) :
       /\ (emitted[i].step.index_in_bar = 0) <=> IsBarStart(Ticks(i))
       /\ emitted[i].bar = bar_at_ticks(info, Ticks(i))

\* A step on a bar boundary after tick 0 where the time signature changes.
C1_Witness ==
  \E i \in 2..Len(emitted) :
    /\ emitted[i].step.index_in_bar = 0
    /\ Ticks(i) > 0
    /\ emitted[i].bar.time_sig /= emitted[i - 1].bar.time_sig
    /\ emitted[i - 1].step.index_in_bar > 0

\* C2: two consecutive steps of the same bar are at least min_step_gap points
\* apart, that is at least min_step_ticks ticks apart.
C2_MinimumGap ==
  \A i \in 1..(Len(emitted) - 1) :
    SameBar(i, i + 1) =>
      /\ emitted[i + 1].step.x - emitted[i].step.x >= args.min_step_gap
      /\ Ticks(i + 1) - Ticks(i) >= steps.min_step_ticks

\* Two consecutive steps of one bar exactly min_step_gap apart, and two further apart.
C2_Witness ==
  /\ Len(emitted) >= 2
  /\ SameBar(Len(emitted) - 1, Len(emitted))
  /\ emitted[Len(emitted)].step.x - emitted[Len(emitted) - 1].step.x = args.min_step_gap

\* C3: every call of Steps::next returns (a Step or None): the claim as
\* stated.  The u16 subdivision counter overflows when ticks_per_beat /
\* min_step_ticks reaches 65536 / (denominator / 4); the call then panics
\* (overflow checks) or never leaves the doubling loop (wrapping).
C3_EveryCallReturns == status \notin {"panic", "hang"}

\* C4 as stated: a bar entered with a natural step below min_step_ticks gets
\* step_ticks = its length and exactly one step, at its start, with index 0.
C4_ExactlyOneStep ==
  \A j \in 1..Len(entered) :
    LET bar == entered[j].bar IN
    (NaturalStep(bar) < steps.min_step_ticks /\ LeftBar(j)) =>
      /\ entered[j].step_ticks = bar.tick_range.end - bar.tick_range.start
      /\ Cardinality(StepsOf(bar)) = 1
      /\ \A i \in StepsOf(bar) :
           Ticks(i) = bar.tick_range.start /\ emitted[i].step.index_in_bar = 0

\* C4 amended: such a bar gets step_ticks = its length and at most one step,
\* at its start with index 0: exactly one when the bar starts at tick 0 or
\* later, none when it starts before tick 0 (its only step is skipped).
C4_DensityFallback ==
  \A j \in 1..Len(entered) :
    LET bar == entered[j].bar IN
    NaturalStep(bar) < steps.min_step_ticks =>
      /\ entered[j].step_ticks = bar.tick_range.end - bar.tick_range.start
      /\ Cardinality(StepsOf(bar)) <= 1
      /\ \A i \in StepsOf(bar) :
           Ticks(i) = bar.tick_range.start /\ emitted[i].step.index_in_bar = 0
      /\ LeftBar(j) =>
           Cardinality(StepsOf(bar)) = (IF bar.tick_range.start >= 0 THEN 1 ELSE 0)

\* A pass that left a fallback bar starting before tick 0 and a later one.
C4_Witness ==
  /\ Len(entered) >= 3
  /\ entered[1].bar.tick_range.start < 0
  /\ NaturalStep(entered[1].bar) < steps.min_step_ticks
  /\ NaturalStep(entered[2].bar) < steps.min_step_ticks
  /\ Cardinality(StepsOf(entered[2].bar)) = 1

\* C5: the number of steps emitted is at most visible_ticks / min_step_ticks
\* plus the number of bars the cursor has been in during the pass (stated
\* without the division: multiplied through by min_step_ticks).
C5_StepCountBound ==
  Len(emitted) * steps.min_step_ticks
    <= steps.visible_ticks + Len(entered) * steps.min_step_ticks

\* A finished pass of several steps that meets the bound with equality.
C5_Witness ==
  /\ status = "none"
  /\ Len(emitted) >= 3
  /\ Len(emitted) * steps.min_step_ticks
       = steps.visible_ticks + Len(entered) * steps.min_step_ticks

\* C9 as stated: with visible_len = 0 no step is ever emitted.
C9_NoStepAtZeroWidth == args.visible_len = 0 => emitted = <<>>

\* C9 amended: with visible_len = 0 at most one step is emitted, and only at
\* tick 0 (x = 0); when the first bar starts at tick 0 the first call returns
\* that step (index 0) and the second call returns None.
C9_ZeroWidth ==
  args.visible_len = 0 =>
    /\ Len(emitted) <= 1
    /\ \A i \in 1..Len(emitted) : Ticks(i) = 0 /\ emitted[i].step.x = 0
    /\ (status = "none" /\ info.first_start = 0) =>
         (Len(emitted) = 1 /\ emitted[1].step.index_in_bar = 0)

\* The pass over a zero-width view has ended after emitting the step at tick 0.
C9_Witness ==
  /\ args.visible_len = 0
  /\ status = "none"
  /\ Len(emitted) = 1

\* The finest halving of s that is at least min / strictly above min.
RECURSIVE DensestAtLeast(_, _), DensestAbove(_, _)
DensestAtLeast(s, min) == IF s % 2 = 0 /\ s \div 2 >= min THEN DensestAtLeast(s \div 2, min) ELSE s
DensestAbove(s, min) == IF s % 2 = 0 /\ s \div 2 > min THEN DensestAbove(s \div 2, min) ELSE s

\* C10 as stated: for a bar whose natural step s0 is >= min_step_ticks the
\* chosen step_ticks is s0 / 2^k for the largest k with s0 / 2^k >= min_step_ticks.
C10_DensestAtLeastMin ==
  \A j \in 1..Len(entered) :
    NaturalStep(entered[j].bar) >= steps.min_step_ticks =>
      entered[j].step_ticks = DensestAtLeast(NaturalStep(entered[j].bar), steps.min_step_ticks)

\* C10 amended: the chosen step_ticks is s0 / 2^k for the largest k that is 0
\* or has s0 / 2^k strictly greater than min_step_ticks.
C10_DensestAboveMin ==
  \A j \in 1..Len(entered) :
    NaturalStep(entered[j].bar) >= steps.min_step_ticks =>
      entered[j].step_ticks = DensestAbove(NaturalStep(entered[j].bar), steps.min_step_ticks)

\* A bar was halved at least once and stopped at twice min_step_ticks, and
\* another kept its natural step equal to min_step_ticks.
C10_Witness ==
  \E j, k \in 1..Len(entered) :
    /\ entered[j].step_ticks = 2 * steps.min_step_ticks
    /\ entered[j].step_ticks < NaturalStep(entered[j].bar)
    /\ entered[k].step_ticks = steps.min_step_ticks
    /\ entered[k].step_ticks = NaturalStep(entered[k].bar)

\* C6 as stated: in every frame of Timeline::show with Ctrl held and a
\* non-zero scroll delta, zoom(delta.y - delta.x) is the one call made.
C6_ZoomWheneverCtrl ==
  (frame.kind = "show" /\ frame.ctrl /\ (frame.delta.x /= 0 \/ frame.delta.y /= 0)) =>
    calls = <<[fn |-> "zoom", arg |-> frame.delta.y - frame.delta.x]>>

\* C6 amended: in a frame with the pointer over the timeline rect, Ctrl held
\* and a non-zero scroll delta, zoom(delta.y - delta.x) is the one call made
\* (no pan); with the pointer elsewhere the frame makes no call.
C6_ZoomGesture ==
  (frame.kind = "show" /\ frame.ctrl /\ (frame.delta.x /= 0 \/ frame.delta.y /= 0)) =>
    IF RectContainsPointer(shown.timeline_rect, frame.pointer)
    THEN calls = <<[fn |-> "zoom", arg |-> frame.delta.y - frame.delta.x]>>
    ELSE calls = <<>>

\* delta = (3, -2) with Ctrl held over the timeline: zoom(-5), no pan.
C6_Witness ==
  /\ frame.kind = "show"
  /\ frame.ctrl
  /\ frame.delta = [x |-> F(3), y |-> F(0 - 2)]
  /\ calls = <<[fn |-> "zoom", arg |-> F(0 - 5)]>>

\* C7 as stated: in every frame without Ctrl and with delta.x /= 0,
\* shift_timeline_start(delta.x * ticks_per_point) is the one call made; in a
\* frame without Ctrl and with delta.x = 0 no call is made.
C7_PanWheneverScrolled ==
  (frame.kind = "show" /\ ~frame.ctrl) =>
    IF frame.delta.x /= 0
    THEN calls = <<[fn |-> "shift_timeline_start",
                    arg |-> (frame.delta.x * ticks_per_point(info)) \div Unit]>>
    ELSE calls = <<>>

\* C7 amended: the pan call is made when, in addition, the pointer is over the
\* timeline rect; with the pointer elsewhere, or with delta.x = 0, a frame
\* without Ctrl makes no call.
C7_PanGesture ==
  (frame.kind = "show" /\ ~frame.ctrl) =>
    IF frame.delta.x /= 0 /\ RectContainsPointer(shown.timeline_rect, frame.pointer)
    THEN calls = <<[fn |-> "shift_timeline_start",
                    arg |-> (frame.delta.x * ticks_per_point(info)) \div Unit]>>
    ELSE calls = <<>>

\* A horizontal scroll of 2 points at 4 ticks per point pans by 8 ticks.
C7_Witness ==
  /\ frame.kind = "show"
  /\ ~frame.ctrl
  /\ frame.delta.x = F(2)
  /\ ticks_per_point(info) = F(4)
  /\ calls = <<[fn |-> "shift_timeline_start", arg |-> F(8)]>>

\* C8: a frame of ruler::musical with a click or a drag and a pointer position
\* calls click_at_tick once, with max(0, (pointer_x - left) * ticks_per_point)
\* (the fraction of the width times visible_ticks), never negative; a frame
\* with neither a click nor a drag does not call it.  A frame of playhead::set
\* maps the pointer the same way but calls set_playhead_ticks, never
\* click_at_tick.
C8_RulerClick ==
  /\ frame.kind = "musical" =>
       /\ ((frame.clicked \/ frame.dragged) /\ frame.pointer /= None) =>
            /\ Len(calls) = 1
            /\ calls[1].fn = "click_at_tick"
            /\ calls[1].arg >= 0
            /\ LET t == ((frame.pointer[1] - frame.left) * ticks_per_point(info)) \div Unit
               IN calls[1].arg = IF t >= 0 THEN t ELSE 0
       /\ (~frame.clicked /\ ~frame.dragged) => calls = <<>>
  /\ frame.kind = "playhead" =>
       /\ ((frame.clicked \/ frame.dragged) /\ frame.pointer /= None) =>
            /\ Len(calls) = 1
            /\ calls[1].fn = "set_playhead_ticks"
            /\ LET t == ((frame.pointer[1] - frame.left) * ticks_per_point(info)) \div Unit
               IN calls[1].arg = IF t >= 0 THEN t ELSE 0
       /\ (~frame.clicked /\ ~frame.dragged) => calls = <<>>

\* A click a quarter of the way along a 16 point ruler that shows 480 ticks
\* dispatches tick 120.
C8_Witness ==
  /\ frame.kind = "musical"
  /\ frame.clicked
  /\ frame.w = F(16)
  /\ frame.pointer = Some(frame.left + F(4))
  /\ FMul(frame.w, ticks_per_point(info)) = F(480)
  /\ calls = <<[fn |-> "click_at_tick", arg |-> F(120)]>>

\* A call of Steps::next has run the step-interval block on a bar whose
\* denominator is below 4 (the generator holds that bar after a call).
InSubQuarterBar == status /= "new" /\ steps.bar.time_sig.bottom < 4

\* C11 as stated: when the generator enters a bar whose denominator is below
\* 4, the call of Steps::next crashes (division by zero).
C11_DivisionByZeroCrash == InSubQuarterBar => status = "panic"

\* C11 amended: when the generator enters such a bar, bottom / 4 is 0, the
\* f32 quotient ticks_per_beat / 0 is +infinity, and the call of Steps::next
\* neither crashes nor returns: it stays in the doubling loop with
\* step_ticks = +infinity, and emits no step for that bar.
C11_SubQuarterHang ==
  InSubQuarterBar =>
    /\ status = "hang"
    /\ steps.step_ticks = Inf
    /\ StepsOf(steps.bar) = {}
    /\ \A j \in 1..Len(entered) : entered[j].bar /= steps.bar

\* The generator emitted the steps of a bar and then entered a 2/2 bar.
C11_Witness ==
  /\ InSubQuarterBar
  /\ status = "hang"
  /\ steps.bar.time_sig = [top |-> 2, bottom |-> 2]
  /\ steps.bar.tick_range.start > 0
  /\ Len(emitted) >= 2

\* C12: every emitted step lies in the visible range and on its bar's grid:
\* 0 <= ticks <= visible_ticks, x * ticks_per_point = ticks (so 0 <= x <=
\* visible_len), and ticks = bar.start + index_in_bar * step_ticks for the bar
\* and step interval current at emission; the steps of a first bar that lie
\* before tick 0 are not emitted but are counted by index_in_bar, so the first
\* step emitted for such a bar has the number of skipped steps as its index.
C12_VisibleOnGrid ==
  /\ \A i \in 1..Len(emitted) :
       LET e == emitted[i] IN
       /\ 0 <= e.step.ticks /\ e.step.ticks <= steps.visible_ticks
       /\ e.step.x * steps.ticks_per_point = e.step.ticks * Unit
       /\ 0 <= e.step.x /\ e.step.x <= args.visible_len
       /\ e.step.ticks = e.bar.tick_range.start + e.step.index_in_bar * e.step_ticks
  /\ (Len(emitted) >= 1 /\ emitted[1].bar.tick_range.start < 0) =>
       LET e == emitted[1] IN
       /\ e.step.index_in_bar >= 1
       /\ e.bar.tick_range.start + (e.step.index_in_bar - 1) * e.step_ticks < 0

\* Two steps were skipped before tick 0 (the first emitted step has index 2)
\* and the last emitted step lies on the right edge of the visible range.
C12_Witness ==
  /\ Len(emitted) >= 2
  /\ emitted[1].bar.tick_range.start < 0
  /\ emitted[1].step.index_in_bar = 2
  /\ emitted[Len(emitted)].step.ticks = steps.visible_ticks
  /\ emitted[Len(emitted)].step.x = args.visible_len

====
